---- MODULE Spec2Model ----
(***************************************************************************)
(* Model of simulation_main.py: the LiveStats accumulator, the MQTTClient  *)
(* transport, the ApplicationLayer consumer, the replay loop of            *)
(* simulate_device and the orchestrator main().                            *)
(*                                                                         *)
(* Power values are floats in the source; they are modelled as integers    *)
(* (exact arithmetic, no NaN), and float('inf') as the sentinel Inf.       *)
(* Message payloads travel as bytes: json.dumps and json.loads work on     *)
(* sequences of characters.                                                *)
(***************************************************************************)
EXTENDS Integers, Sequences, FiniteSets, TLC

\* ------------------------------------------------------------------ bounds
Powers == {-2, 0, 3}      \* the power values add_data is called with
RowPowers == {-2, 3}      \* the two power values the rows of a dataset alternate between
FreeCalls == 4            \* add_data calls whose argument is chosen freely
MaxCalls == 23            \* add_data calls in one LiveStats run
MaxRecords == 2           \* rows of one device's dataset
MaxNetEvents == 2         \* connect/disconnect notifications of the network loop
MaxInterrupts == 1        \* Ctrl+C presses during one run

\* ------------------------------------------------------- program constants
Inf == 999999             \* float('inf')
RecentCap == 20           \* deque(maxlen=20)
ConnectTimeout == 5       \* timeout = 5 (seconds)
TicksPerUnit == 10        \* time.sleep(0.1): ten sleeps per second

\* the device configurations of main(); topics are sequences of segments
Devices ==
    << [name |-> "Buzdolabi", csv_file |-> "fridge_207.csv",
        device_id |-> "fridge_207", topic_prefix |-> <<"home", "appliance">>],
       [name |-> "Supurge", csv_file |-> "vacuum_254.csv",
        device_id |-> "vacuum_254", topic_prefix |-> <<"home", "appliance">>] >>

DevIdx == 1..Len(Devices)

VARIABLES
    ls,                 \* a LiveStats driven by arbitrary add_data calls
    lsHist,             \* the powers added to ls, in order
    useRealMqtt,        \* USE_REAL_MQTT
    pc,                 \* position of the main thread
    mqtt_client,        \* main's mqtt_client: "None" or "obj"
    client,             \* MQTTClient.client is set (paho client created)
    connected,          \* MQTTClient.connected
    loopRunning,        \* the paho network loop thread is running
    elapsed,            \* sleeps done by connect()'s wait loop
    connectResult,      \* what connect() returned: "none", "true", "false"
    dev,                \* index of the device being simulated (0: none yet)
    df,                 \* per simulate_device call: the rows read from the csv
    i,                  \* rows the replay loop has completed
    stats,              \* the LiveStats of the running simulate_device call
    created,            \* calls that constructed their ApplicationLayer
    proc,               \* per simulate_device call: its ApplicationLayer
    simExit,            \* per call: "pending", "return", "KeyboardInterrupt",
                        \* "FileNotFoundError"
    netSeen,            \* per call: some read of "mqtt_client and connected" was true
    all_processors,     \* main's list (calls whose processor was kept)
    inflight,           \* messages accepted by the broker, not yet delivered
    on_message,         \* call whose _on_mqtt_message is installed (0: none)
    subscriptions,      \* topic filters subscribed on the paho client
    clientCalled,       \* the running MQTTClient.publish called the paho client
    publishResult,      \* what the running real_mqtt_publish got from publish
    disconnectCalls,    \* completed MQTTClient.disconnect calls
    interrupts,         \* KeyboardInterrupts delivered
    netEvents,          \* connect/disconnect notifications delivered
    summary,            \* the final summary main prints
    exitVia,            \* how the program ended: "running", "normal", "interrupt"
    codecIn,            \* the reading handed to the encoder (<<>>: none yet)
    codecWire,          \* the bytes the encoder produced for it
    codecOut,           \* the fields the decoder extracted from those bytes
    progTotal,          \* total_records of a replay watched for its progress lines
    progIndex,          \* iterations of that replay completed
    progPrinted         \* the indices at which it printed a progress line

lsVars == <<ls, lsHist>>
mqttVars == <<client, connected, loopRunning, elapsed, connectResult>>
brokerVars == <<inflight, on_message, subscriptions, clientCalled,
                publishResult>>
simVars == <<dev, df, i, stats, created, proc, simExit, netSeen>>
mainVars == <<useRealMqtt, mqtt_client, all_processors, disconnectCalls,
              interrupts, netEvents, summary, exitVia>>
codecVars == <<codecIn, codecWire, codecOut>>
progressVars == <<progTotal, progIndex, progPrinted>>
vars == <<lsVars, mqttVars, brokerVars, simVars, mainVars, pc, codecVars,
          progressVars>>

\* ------------------------------------------------------------ arithmetic
Max(a, b) == IF a >= b THEN a ELSE b
Min(a, b) == IF a <= b THEN a ELSE b

RECURSIVE SeqSum(_)
SeqSum(s) == IF s = <<>> THEN 0 ELSE s[1] + SeqSum(Tail(s))

SeqMax(s) == CHOOSE x \in {s[k] : k \in 1..Len(s)} : \A k \in 1..Len(s) : s[k] <= x
SeqMin(s) == CHOOSE x \in {s[k] : k \in 1..Len(s)} : \A k \in 1..Len(s) : x <= s[k]

\* the last n elements of s, in order
LastN(s, n) == SubSeq(s, Len(s) - n + 1, Len(s))

\* ------------------------------------------------------------- LiveStats
LiveStatsInit ==
    [message_count |-> 0, total_power |-> 0, max_power |-> 0,
     min_power |-> Inf, current_power |-> 0, recent_powers |-> <<>>]

\* deque(maxlen=RecentCap).append: a full deque drops its oldest element
DequeAppend_noEvict(q, x) == IF Len(q) >= RecentCap THEN q ELSE Append(q, x)

DequeAppend(q, x) ==
    IF Len(q) >= RecentCap THEN Append(Tail(q), x) ELSE Append(q, x)

add_data_keepMax(s, power) ==
    [message_count |-> s.message_count + 1,
     total_power   |-> s.total_power + power,
     max_power     |-> s.max_power,
     min_power     |-> Min(s.min_power, power),
     current_power |-> power,
     recent_powers |-> DequeAppend(s.recent_powers, power)]

add_data_keepMin(s, power) ==
    [message_count |-> s.message_count + 1,
     total_power   |-> s.total_power + power,
     max_power     |-> Max(s.max_power, power),
     min_power     |-> IF s.message_count = 0 THEN power ELSE s.min_power,
     current_power |-> power,
     recent_powers |-> DequeAppend(s.recent_powers, power)]

add_data(s, power) ==
    [message_count |-> s.message_count + 1,
     total_power   |-> s.total_power + power,
     max_power     |-> Max(s.max_power, power),
     min_power     |-> Min(s.min_power, power),
     current_power |-> power,
     recent_powers |-> DequeAppend(s.recent_powers, power)]

\* the average as a fraction <<numerator, denominator>>; <<0, 1>> is the 0
\* returned when nothing was added
get_avg_power(s) ==
    IF s.message_count > 0 THEN <<s.total_power, s.message_count>> ELSE <<0, 1>>

\* int(x) of a quotient a/b with b > 0: truncation toward zero
TruncDiv(a, b) == IF a >= 0 THEN a \div b ELSE 0 - ((0 - a) \div b)

\* the number of characters of (string * n): none for a negative n
Repeat(n) == Max(n, 0)

\* get_power_bar, lines 78-86: the ratio (numerator, denominator), the
\* value of filled, and the numbers of full and of empty cells of the bar
get_power_bar(s, width) ==
    IF s.max_power = 0
       THEN [normalized |-> <<0, 1>>, filled |-> 0,
             full |-> 0, empty |-> Repeat(width)]
       ELSE LET normalized == IF s.max_power > 0
                                 THEN <<s.current_power, s.max_power>>
                                 ELSE <<0, 1>>
                filled == TruncDiv(normalized[1] * width, normalized[2])
            IN  [normalized |-> normalized, filled |-> filled,
                 full |-> Repeat(filled), empty |-> Repeat(width - filled)]

\* ------------------------------------------------------- JSON and UTF-8
\* A text is a sequence of characters; a character is a one-symbol string.
\* The identifiers of the program ("fridge_207", "device_id", ...) are single
\* symbols of the alphabet.
QUOTE == "\""
BSLASH == "\\"
NonAscii == {"e_acute"}
Digits == <<"0", "1", "2", "3", "4", "5", "6", "7", "8", "9">>

IsDigit(c) == \E d \in 1..10 : Digits[d] = c
DigitVal(c) == (CHOOSE d \in 1..10 : Digits[d] = c) - 1

\* the four hex digits of a character's code point
Hex4(c) == <<"0", "0", "e", "9">>

\* the Python values json handles: str, float, dict (items in insertion
\* order) and None
PyStr(cs) == [t |-> "str", chars |-> cs]
PyNum(n) == [t |-> "num", n |-> n]
PyDict(items) == [t |-> "obj", items |-> items]
PyNone == [t |-> "null"]

\* json.dumps, line 203 (ensure_ascii: a non-ASCII character becomes \uXXXX)
EscapeChar_noBackslash(c) ==
    IF c = QUOTE THEN <<BSLASH, QUOTE>>
    ELSE IF c \in NonAscii THEN <<BSLASH, "u">> \o Hex4(c)
    ELSE <<c>>

EscapeChar(c) ==
    IF c = QUOTE THEN <<BSLASH, QUOTE>>
    ELSE IF c = BSLASH THEN <<BSLASH, BSLASH>>
    ELSE IF c \in NonAscii THEN <<BSLASH, "u">> \o Hex4(c)
    ELSE <<c>>

RECURSIVE EscapeAll(_)
EscapeAll(cs) ==
    IF cs = <<>> THEN <<>> ELSE EscapeChar(Head(cs)) \o EscapeAll(Tail(cs))

DumpStr(cs) == <<QUOTE>> \o EscapeAll(cs) \o <<QUOTE>>

RECURSIVE NatText(_)
NatText(n) ==
    IF n < 10 THEN <<Digits[n + 1]>>
    ELSE NatText(n \div 10) \o <<Digits[(n % 10) + 1]>>

\* repr of a float with an integral value: "-2.0"
FloatRepr(n) ==
    (IF n < 0 THEN <<"-">> ELSE <<>>)
        \o NatText(IF n < 0 THEN 0 - n ELSE n) \o <<".", "0">>

RECURSIVE Dump(_), DumpItems(_)
Dump(v) ==
    CASE v.t = "str" -> DumpStr(v.chars)
      [] v.t = "num" -> FloatRepr(v.n)
      [] v.t = "obj" -> <<"{">> \o DumpItems(v.items) \o <<"}">>
      [] OTHER -> <<"n", "u", "l", "l">>

DumpItems(items) ==
    IF items = <<>> THEN <<>>
    ELSE DumpStr(items[1].key) \o <<":", " ">> \o Dump(items[1].val)
            \o (IF Len(items) > 1
                   THEN <<",", " ">> \o DumpItems(Tail(items)) ELSE <<>>)

json_dumps(v) == Dump(v)

\* json.loads, line 378: a recursive-descent parse of strings, numbers (with
\* a fraction of zeros only), null and objects; anything else is a
\* JSONDecodeError (ok = FALSE)
ParseFail == [ok |-> FALSE, val |-> PyNone, rest |-> <<>>]

RECURSIVE SkipWs(_)
SkipWs(t) == IF t # <<>> /\ t[1] = " " THEN SkipWs(Tail(t)) ELSE t

RECURSIVE ParseChars(_, _)
ParseChars(t, acc) ==
    IF t = <<>> THEN ParseFail
    ELSE IF t[1] = QUOTE
        THEN [ok |-> TRUE, val |-> PyStr(acc), rest |-> Tail(t)]
    ELSE IF t[1] = BSLASH
        THEN IF Len(t) >= 2 /\ t[2] \in {QUOTE, BSLASH}
                THEN ParseChars(SubSeq(t, 3, Len(t)), Append(acc, t[2]))
             ELSE IF /\ Len(t) >= 6
                     /\ t[2] = "u"
                     /\ \E c \in NonAscii : Hex4(c) = SubSeq(t, 3, 6)
                THEN ParseChars(SubSeq(t, 7, Len(t)),
                        Append(acc, CHOOSE c \in NonAscii :
                                        Hex4(c) = SubSeq(t, 3, 6)))
             ELSE ParseFail
    ELSE ParseChars(Tail(t), Append(acc, t[1]))

RECURSIVE TakeDigits(_, _, _)
TakeDigits(t, n, count) ==
    IF t # <<>> /\ IsDigit(t[1])
       THEN TakeDigits(Tail(t), n * 10 + DigitVal(t[1]), count + 1)
       ELSE [n |-> n, count |-> count, rest |-> t]

ParseNumber(t) ==
    LET neg == t[1] = "-"
        u == IF neg THEN Tail(t) ELSE t
        ip == TakeDigits(u, 0, 0)
        val == IF neg THEN 0 - ip.n ELSE ip.n
        fp == TakeDigits(Tail(ip.rest), 0, 0)
    IN  IF ip.count = 0 \/ (ip.count > 1 /\ u[1] = "0") THEN ParseFail
        ELSE IF ip.rest # <<>> /\ ip.rest[1] = "."
            THEN IF fp.count = 0 \/ fp.n # 0 THEN ParseFail
                 ELSE [ok |-> TRUE, val |-> PyNum(val), rest |-> fp.rest]
        ELSE [ok |-> TRUE, val |-> PyNum(val), rest |-> ip.rest]

RECURSIVE ParseValue(_), ParseItems(_, _)
ParseValue(t0) ==
    LET t == SkipWs(t0)
    IN  IF t = <<>> THEN ParseFail
        ELSE IF t[1] = QUOTE THEN ParseChars(Tail(t), <<>>)
        ELSE IF t[1] = "-" \/ IsDigit(t[1]) THEN ParseNumber(t)
        ELSE IF Len(t) >= 4 /\ SubSeq(t, 1, 4) = <<"n", "u", "l", "l">>
            THEN [ok |-> TRUE, val |-> PyNone, rest |-> SubSeq(t, 5, Len(t))]
        ELSE IF t[1] = "{"
            THEN LET u == SkipWs(Tail(t))
                 IN  IF u # <<>> /\ u[1] = "}"
                        THEN [ok |-> TRUE, val |-> PyDict(<<>>),
                              rest |-> Tail(u)]
                        ELSE ParseItems(u, <<>>)
        ELSE ParseFail

\* the items of an object after "{" or ",": "key": value, then "," or "}"
ParseItems(t0, acc) ==
    LET t == SkipWs(t0)
        k == ParseChars(Tail(t), <<>>)
        c == SkipWs(k.rest)
        v == ParseValue(Tail(c))
        e == SkipWs(v.rest)
        items == Append(acc, [key |-> k.val.chars, val |-> v.val])
    IN  IF t = <<>> \/ t[1] # QUOTE THEN ParseFail
        ELSE IF ~k.ok \/ c = <<>> \/ c[1] # ":" THEN ParseFail
        ELSE IF ~v.ok \/ e = <<>> THEN ParseFail
        ELSE IF e[1] = "," THEN ParseItems(Tail(e), items)
        ELSE IF e[1] = "}"
            THEN [ok |-> TRUE, val |-> PyDict(items), rest |-> Tail(e)]
        ELSE ParseFail

json_loads(text) ==
    LET r == ParseValue(text)
    IN  IF r.ok /\ SkipWs(r.rest) = <<>>
           THEN [ok |-> TRUE, val |-> r.val]
           ELSE [ok |-> FALSE, val |-> PyNone]

\* dict.get(key, default); of two items with one key the later one counts
DictGet(d, key, default) ==
    LET hits == {k \in 1..Len(d.items) : d.items[k].key = key}
    IN  IF hits = {} THEN default
        ELSE d.items[CHOOSE k \in hits : \A j \in hits : j <= k].val

\* str.encode('utf-8') as done by the paho client on publish: an ASCII
\* character is one byte, e_acute the two bytes C3 A9.  The encoding of a
\* text is the concatenation of the encodings of its two halves.
RECURSIVE Utf8Encode(_)
Utf8Encode(text) ==
    IF text = <<>> THEN <<>>
    ELSE IF Len(text) = 1
        THEN IF text[1] \in NonAscii THEN <<"0xC3", "0xA9">> ELSE text
    ELSE Utf8Encode(SubSeq(text, 1, Len(text) \div 2))
            \o Utf8Encode(SubSeq(text, (Len(text) \div 2) + 1, Len(text)))

\* bytes.decode('utf-8'), line 377: 0xFF, a lead byte C3 without its
\* continuation A9 and a continuation without its lead byte are a
\* UnicodeDecodeError (ok = FALSE); otherwise every pair C3 A9 is one
\* e_acute and every other byte the character itself
IsLeadOrAscii(b) == b # "0xA9"

Utf8Decode(bytes) ==
    LET n == Len(bytes)
        valid == \A k \in 1..n :
                    /\ bytes[k] # "0xFF"
                    /\ bytes[k] = "0xC3" => (k < n /\ bytes[k + 1] = "0xA9")
                    /\ bytes[k] = "0xA9" => (k > 1 /\ bytes[k - 1] = "0xC3")
        heads == SelectSeq(bytes, IsLeadOrAscii)
    IN  IF valid
           THEN [ok |-> TRUE,
                 text |-> [k \in 1..Len(heads) |->
                             IF heads[k] = "0xC3" THEN "e_acute"
                                                  ELSE heads[k]]]
           ELSE [ok |-> FALSE, text |-> <<>>]

\* the dict built at lines 597-601 from a reading
ReadingDict(r) ==
    PyDict(<< [key |-> <<"device_id">>, val |-> PyStr(r.device_id)],
              [key |-> <<"timestamp">>, val |-> PyStr(r.timestamp)],
              [key |-> <<"power">>,     val |-> PyNum(r.power)] >>)

\* the three payload.get calls, lines 413-415
PayloadFields(v) ==
    [device_id |-> DictGet(v, <<"device_id">>, PyStr(<<"unknown">>)),
     timestamp |-> DictGet(v, <<"timestamp">>, PyStr(<<>>)),
     power     |-> DictGet(v, <<"power">>, PyNum(0))]

\* ------------------------------------------------------ ApplicationLayer
ApplicationLayerInit ==
    [received_messages |-> <<>>, processed_count |-> 0, device_stats |-> <<>>,
     subscribed |-> FALSE]

DeviceStatsInit_lowestMax ==
    [message_count |-> 0, total_power |-> 0, max_power |-> 0 - Inf,
     min_power |-> Inf]

DeviceStatsInit ==
    [message_count |-> 0, total_power |-> 0, max_power |-> 0, min_power |-> Inf]

\* process_json_message on a well-formed payload
process_json_message_noCount(c, topic, payload) ==
    LET id == payload.device_id
        old == IF id \in DOMAIN c.device_stats
                  THEN c.device_stats[id] ELSE DeviceStatsInit
        upd == [message_count |-> old.message_count,
                total_power   |-> old.total_power + payload.power,
                max_power     |-> Max(old.max_power, payload.power),
                min_power     |-> Min(old.min_power, payload.power)]
    IN  [c EXCEPT
           !.device_stats = [k \in (DOMAIN c.device_stats) \cup {id} |->
                                IF k = id THEN upd ELSE c.device_stats[k]],
           !.received_messages =
               Append(@, [device_id |-> id, timestamp |-> payload.timestamp,
                          power |-> payload.power, topic |-> topic]),
           !.processed_count = @ + 1]

process_json_message_dropOthers(c, topic, payload) ==
    LET id == payload.device_id
        old == IF id \in DOMAIN c.device_stats
                  THEN c.device_stats[id] ELSE DeviceStatsInit
        upd == [message_count |-> old.message_count + 1,
                total_power   |-> old.total_power + payload.power,
                max_power     |-> Max(old.max_power, payload.power),
                min_power     |-> Min(old.min_power, payload.power)]
    IN  [c EXCEPT
           !.device_stats = [k \in {id} |-> upd],
           !.received_messages =
               Append(@, [device_id |-> id, timestamp |-> payload.timestamp,
                          power |-> payload.power, topic |-> topic]),
           !.processed_count = @ + 1]

process_json_message(c, topic, payload) ==
    LET id == payload.device_id
        old == IF id \in DOMAIN c.device_stats
                  THEN c.device_stats[id] ELSE DeviceStatsInit
        upd == [message_count |-> old.message_count + 1,
                total_power   |-> old.total_power + payload.power,
                max_power     |-> Max(old.max_power, payload.power),
                min_power     |-> Min(old.min_power, payload.power)]
    IN  [c EXCEPT
           !.device_stats = [k \in (DOMAIN c.device_stats) \cup {id} |->
                                IF k = id THEN upd ELSE c.device_stats[k]],
           !.received_messages =
               Append(@, [device_id |-> id, timestamp |-> payload.timestamp,
                          power |-> payload.power, topic |-> topic]),
           !.processed_count = @ + 1]

\* an identifier as a text, and back
AsText(s) == IF s = "" THEN <<>> ELSE <<s>>
AsIdent(cs) == IF cs = <<>> THEN "" ELSE cs[1]

\* a decoded value as a dict key or a stored field: a str by its symbol
KeyOf(v) ==
    CASE v.t = "str" -> AsIdent(v.chars)
      [] v.t = "num" -> ToString(v.n)
      [] OTHER -> "None"

\* process_json_message with its try/except, lines 412-461, on any decoded
\* value.  A value that is no dict fails at line 413 and a dict as device_id
\* at line 418, before anything is written; a power that is no number fails
\* at line 428, after the record was created (lines 418-424) and its
\* message_count incremented (line 427).  The except clause of line 460
\* prints and returns.
process_json_message_try(c, topic, v) ==
    IF v.t # "obj" THEN c
    ELSE LET f == PayloadFields(v)
             id == KeyOf(f.device_id)
             old == IF id \in DOMAIN c.device_stats
                       THEN c.device_stats[id] ELSE DeviceStatsInit
         IN  IF f.device_id.t = "obj" THEN c
             ELSE IF f.power.t # "num"
                THEN [c EXCEPT !.device_stats =
                        [k \in (DOMAIN c.device_stats) \cup {id} |->
                            IF k = id
                               THEN [old EXCEPT !.message_count = @ + 1]
                               ELSE c.device_stats[k]]]
             ELSE process_json_message(c, topic,
                     [device_id |-> id, timestamp |-> KeyOf(f.timestamp),
                      power |-> f.power.n])

\* _on_mqtt_message, lines 373-391: decode, json.loads, process; a
\* UnicodeDecodeError (line 389) or JSONDecodeError (line 387) is printed
on_mqtt_message(c, topic, bytes) ==
    LET d == Utf8Decode(bytes)
        r == json_loads(d.text)
    IN  IF ~d.ok THEN c
        ELSE IF ~r.ok THEN c
        ELSE process_json_message_try(c, topic, r.val)

\* ------------------------------------------------------------ MQTTClient
\* the bytes MQTTClient.publish sends for a payload, lines 203-204
PayloadBytes(payload) ==
    Utf8Encode(json_dumps(ReadingDict(
        [device_id |-> AsText(payload.device_id),
         timestamp |-> AsText(payload.timestamp),
         power     |-> payload.power])))

\* MQTTClient.publish: conn is self.connected as read at line 198, rc the
\* outcome of the paho publish ("ok": MQTT_ERR_SUCCESS, "err": another code
\* or an exception).  called: the paho client was called; sent: the broker
\* accepted the message.
MQTTClient_publish_noGuard(conn, rc) ==
    [result |-> rc = "ok", called |-> TRUE, sent |-> rc = "ok"]

MQTTClient_publish(conn, rc) ==
    IF ~conn
       THEN [result |-> FALSE, called |-> FALSE, sent |-> FALSE]
       ELSE [result |-> rc = "ok", called |-> TRUE, sent |-> rc = "ok"]

\* MQTTClient.disconnect, lines 216-222, on the transport state s: with a
\* paho client it stops the network loop, disconnects and clears connected;
\* without one it does nothing.  loop_stop and disconnect of the paho client
\* report a repeated call by their return value, which is ignored.
MQTTClient_disconnect_keepFlag(s) ==
    IF s.client THEN [s EXCEPT !.loopRunning = FALSE] ELSE s

MQTTClient_disconnect(s) ==
    IF s.client
       THEN [s EXCEPT !.loopRunning = FALSE, !.connected = FALSE]
       ELSE s

\* the transport state of the MQTTClient object
Transport ==
    [client |-> client, connected |-> connected, loopRunning |-> loopRunning]

\* a topic filter matches a topic: "+" stands for exactly one segment
TopicMatches(filter, topic) ==
    /\ Len(filter) = Len(topic)
    /\ \A k \in 1..Len(filter) : filter[k] = "+" \/ filter[k] = topic[k]

\* ------------------------------------------------------- simulate_device
\* the datasets read_csv may yield: up to MaxRecords rows whose powers
\* alternate between the two RowPowers, starting with either
OtherPower(a) == CHOOSE b \in RowPowers : b # a

Datasets ==
    {[k \in 1..n |-> IF k % 2 = 1 THEN a ELSE OtherPower(a)] :
        n \in 0..MaxRecords, a \in RowPowers}

\* row["timestamp"].isoformat() of row k: the row number stands for the
\* row's timestamp
isoformat(k) == ToString(k)

\* the payload built from row k of the dataset of call d, lines 597-601
Payload_previousRow(d, k) ==
    [device_id |-> Devices[d].device_id, timestamp |-> isoformat(k),
     power |-> df[d][Max(k - 1, 1)]]

Payload(d, k) ==
    [device_id |-> Devices[d].device_id, timestamp |-> isoformat(k),
     power |-> df[d][k]]

\* the topic of line 604 and the filter of line 558
Topic_statusSegment(d) ==
    Devices[d].topic_prefix \o <<Devices[d].device_id, "status", "power">>

Topic(d) == Devices[d].topic_prefix \o <<Devices[d].device_id, "power">>

TopicFilter(d) == Devices[d].topic_prefix \o <<"+", "power">>

\* "mqtt_client and mqtt_client.connected"
UsesBroker == mqtt_client = "obj" /\ connected

\* positions of the main thread inside simulate_device's try block
SimPcs == {"device", "sub_check", "subscribe", "loop", "real_publish", "deliver"}
\* positions inside MQTTClient.connect
ConnectPcs == {"connect", "wait", "connect_check"}

\* ------------------------------------------------------------------ Init
InitLs ==
    /\ ls = LiveStatsInit
    /\ lsHist = <<>>

InitMain ==
    /\ useRealMqtt \in BOOLEAN
    /\ pc = "start"
    /\ mqtt_client = "None"
    /\ client = FALSE
    /\ connected = FALSE
    /\ loopRunning = FALSE
    /\ elapsed = 0
    /\ connectResult = "none"
    /\ dev = 0
    /\ df = [d \in DevIdx |-> <<>>]
    /\ i = 0
    /\ stats = LiveStatsInit
    /\ created = {}
    /\ proc = [d \in DevIdx |-> ApplicationLayerInit]
    /\ simExit = [d \in DevIdx |-> "pending"]
    /\ netSeen = [d \in DevIdx |-> FALSE]
    /\ all_processors = <<>>
    /\ inflight = <<>>
    /\ on_message = 0
    /\ subscriptions = {}
    /\ clientCalled = FALSE
    /\ publishResult = "none"
    /\ disconnectCalls = 0
    /\ interrupts = 0
    /\ netEvents = 0
    /\ summary = <<>>
    /\ exitVia = "running"

\* no reading has been handed to the encoder
InitCodecIdle ==
    /\ codecIn = <<>>
    /\ codecWire = <<>>
    /\ codecOut = <<>>

\* no replay is watched for its progress lines
InitProgressIdle ==
    /\ progTotal = 0
    /\ progIndex = 0
    /\ progPrinted = {}

Init == InitLs /\ InitMain /\ InitCodecIdle /\ InitProgressIdle

\* --------------------------------------------------------- main: start-up
\* main, lines 742-757: without USE_REAL_MQTT (or without paho) no client is
\* made; otherwise MQTTClient(...) is constructed and connect() is called
MainStart ==
    /\ pc = "start"
    /\ \E available \in BOOLEAN :
          IF useRealMqtt /\ available
             THEN /\ mqtt_client' = "obj"
                  /\ pc' = "connect"
                  /\ dev' = dev
             ELSE /\ mqtt_client' = "None"
                  /\ pc' = "device"
                  /\ dev' = 1
    /\ UNCHANGED <<lsVars, codecVars, progressVars, mqttVars, brokerVars, df, i, stats, created, proc,
                   simExit, netSeen, useRealMqtt, all_processors,
                   disconnectCalls, interrupts, netEvents, summary, exitVia>>

\* MQTTClient.connect, lines 125-140 and 156-158: the paho client is made;
\* its connect either raises (caught, return False) or the loop is started
ConnectCall ==
    /\ pc = "connect"
    /\ client' = TRUE
    /\ \E raises \in BOOLEAN :
          IF raises
             THEN /\ connectResult' = "false"
                  /\ pc' = "connect_ret"
                  /\ loopRunning' = loopRunning
             ELSE /\ connectResult' = connectResult
                  /\ pc' = "wait"
                  /\ loopRunning' = TRUE
    /\ elapsed' = 0
    /\ UNCHANGED <<lsVars, codecVars, progressVars, connected, brokerVars, simVars, useRealMqtt,
                   mqtt_client, all_processors, disconnectCalls, interrupts,
                   netEvents, summary, exitVia>>

\* connect, lines 143-146: one test of the while condition, and one sleep
ConnectWait ==
    /\ pc = "wait"
    /\ IF ~connected /\ elapsed < ConnectTimeout * TicksPerUnit
          THEN /\ elapsed' = elapsed + 1
               /\ pc' = pc
          ELSE /\ elapsed' = elapsed
               /\ pc' = "connect_check"
    /\ UNCHANGED <<lsVars, codecVars, progressVars, client, connected, loopRunning, connectResult,
                   brokerVars, simVars, useRealMqtt, mqtt_client,
                   all_processors, disconnectCalls, interrupts, netEvents,
                   summary, exitVia>>

\* connect, lines 148-154
ConnectCheck_alwaysTrue ==
    /\ pc = "connect_check"
    /\ connectResult' = "true"
    /\ pc' = "connect_ret"
    /\ UNCHANGED <<lsVars, codecVars, progressVars, client, connected, loopRunning, elapsed,
                   brokerVars, simVars, useRealMqtt, mqtt_client,
                   all_processors, disconnectCalls, interrupts, netEvents,
                   summary, exitVia>>

ConnectCheck ==
    /\ pc = "connect_check"
    /\ connectResult' = IF connected THEN "true" ELSE "false"
    /\ pc' = "connect_ret"
    /\ UNCHANGED <<lsVars, codecVars, progressVars, client, connected, loopRunning, elapsed,
                   brokerVars, simVars, useRealMqtt, mqtt_client,
                   all_processors, disconnectCalls, interrupts, netEvents,
                   summary, exitVia>>

\* main, lines 758-762: a failed connect drops the client (simulation mode);
\* connect's local clock is gone once it has returned
MainAfterConnect_keepClient ==
    /\ pc = "connect_ret"
    /\ mqtt_client' = "obj"
    /\ pc' = "device"
    /\ dev' = 1
    /\ elapsed' = 0
    /\ UNCHANGED <<lsVars, codecVars, progressVars, client, connected, loopRunning, connectResult,
                   brokerVars, df, i, stats, created, proc,
                   simExit, netSeen, useRealMqtt, all_processors,
                   disconnectCalls, interrupts, netEvents, summary, exitVia>>

MainAfterConnect ==
    /\ pc = "connect_ret"
    /\ mqtt_client' = IF connectResult = "true" THEN "obj" ELSE "None"
    /\ pc' = "device"
    /\ dev' = 1
    /\ elapsed' = 0
    /\ UNCHANGED <<lsVars, codecVars, progressVars, client, connected, loopRunning, connectResult,
                   brokerVars, df, i, stats, created, proc,
                   simExit, netSeen, useRealMqtt, all_processors,
                   disconnectCalls, interrupts, netEvents, summary, exitVia>>

\* ------------------------------------------------ simulate_device: set-up
\* lines 549-558 and 689-691: read_csv raises FileNotFoundError (return
\* None) or yields the rows; LiveStats and ApplicationLayer are constructed
SimLoad ==
    /\ pc = "device"
    /\ \E found \in BOOLEAN :
          IF found
             THEN /\ \E rows \in Datasets : df' = [df EXCEPT ![dev] = rows]
                  /\ created' = created \cup {dev}
                  /\ simExit' = simExit
                  /\ pc' = "sub_check"
             ELSE /\ df' = df
                  /\ created' = created
                  /\ simExit' = [simExit EXCEPT ![dev] = "FileNotFoundError"]
                  /\ pc' = "sim_return"
    /\ stats' = LiveStatsInit
    /\ proc' = [proc EXCEPT ![dev] = ApplicationLayerInit]
    /\ i' = 0
    /\ UNCHANGED <<lsVars, codecVars, progressVars, mqttVars, brokerVars, dev, netSeen, mainVars>>

\* lines 561-562: the guard of the subscribe call
SimSubscribeCheck ==
    /\ pc = "sub_check"
    /\ pc' = IF UsesBroker THEN "subscribe" ELSE "loop"
    /\ netSeen' = [netSeen EXCEPT ![dev] = @ \/ UsesBroker]
    /\ UNCHANGED <<lsVars, codecVars, progressVars, mqttVars, brokerVars, dev, df, i, stats, created,
                   proc, simExit, mainVars>>

\* ApplicationLayer.subscribe_to_mqtt, lines 353-371: connected is read
\* again; the handler is installed and the filter subscribed
SubscribeToMqtt ==
    /\ pc = "subscribe"
    /\ IF UsesBroker
          THEN /\ on_message' = dev
               /\ subscriptions' = subscriptions \cup {TopicFilter(dev)}
               /\ proc' = [proc EXCEPT ![dev].subscribed = TRUE]
          ELSE UNCHANGED <<on_message, subscriptions, proc>>
    /\ pc' = "loop"
    /\ UNCHANGED <<lsVars, codecVars, progressVars, mqttVars, inflight, clientCalled,
                   publishResult, dev, df, i, stats, created, simExit,
                   netSeen, mainVars>>

\* --------------------------------------------- simulate_device: the loop
\* lines 595-633: the next row becomes a payload; connected is read at line
\* 628; in simulation mode fake_mqtt_publish runs (stats.add_data)
LoopPublishCheck ==
    /\ pc = "loop"
    /\ i < Len(df[dev])
    /\ IF UsesBroker
          THEN /\ pc' = "real_publish"
               /\ stats' = stats
          ELSE /\ pc' = "deliver"
               /\ stats' = add_data(stats, Payload(dev, i + 1).power)
    /\ netSeen' = [netSeen EXCEPT ![dev] = @ \/ UsesBroker]
    /\ UNCHANGED <<lsVars, codecVars, progressVars, mqttVars, brokerVars, dev, df, i, created, proc,
                   simExit, mainVars>>

\* real_mqtt_publish, lines 284-294, with MQTTClient.publish, lines 198-214
RealMqttPublish ==
    /\ pc = "real_publish"
    /\ stats' = add_data(stats, Payload(dev, i + 1).power)
    /\ \E rc \in {"ok", "err"} :
          LET r == MQTTClient_publish(connected, rc)
          IN  /\ publishResult' = IF r.result THEN "true" ELSE "false"
              /\ clientCalled' = r.called
              /\ inflight' =
                     IF r.sent /\ \E f \in subscriptions :
                                      TopicMatches(f, Topic(dev))
                        THEN Append(inflight,
                                [topic |-> Topic(dev),
                                 bytes |-> PayloadBytes(Payload(dev, i + 1))])
                        ELSE inflight
    /\ pc' = "deliver"
    /\ UNCHANGED <<lsVars, codecVars, progressVars, mqttVars, on_message, subscriptions, dev, df, i,
                   created, proc, simExit, netSeen, mainVars>>

\* lines 640-664: connected is read again; in simulation mode the payload is
\* handed to the ApplicationLayer; then the loop sleeps and goes on
DeliverCheck ==
    /\ pc = "deliver"
    /\ proc' = IF UsesBroker
                  THEN proc
                  ELSE [proc EXCEPT ![dev] =
                          process_json_message(@, Topic(dev), Payload(dev, i + 1))]
    /\ netSeen' = [netSeen EXCEPT ![dev] = @ \/ UsesBroker]
    /\ i' = i + 1
    /\ pc' = "loop"
    /\ publishResult' = "none"
    /\ clientCalled' = FALSE
    /\ UNCHANGED <<lsVars, codecVars, progressVars, mqttVars, inflight, on_message, subscriptions, dev,
                   df, stats, created, simExit, mainVars>>

\* lines 666-684: the loop is over, the processor is returned
SimFinish ==
    /\ pc = "loop"
    /\ i = Len(df[dev])
    /\ simExit' = [simExit EXCEPT ![dev] = "return"]
    /\ pc' = "sim_return"
    /\ UNCHANGED <<lsVars, codecVars, progressVars, mqttVars, brokerVars, dev, df, i, stats, created,
                   proc, netSeen, mainVars>>

\* what simulate_device returned for call d
Returned(d) == IF simExit[d] = "return" THEN "processor" ELSE "None"

\* ------------------------------------------------------ main: the devices
\* main, lines 810-815: a returned processor is kept
MainCollect ==
    /\ pc = "sim_return"
    /\ all_processors' = IF Returned(dev) = "processor"
                            THEN Append(all_processors, dev)
                            ELSE all_processors
    /\ pc' = IF dev # Len(Devices) THEN "pause" ELSE "summary"
    /\ UNCHANGED <<lsVars, codecVars, progressVars, mqttVars, brokerVars, simVars, useRealMqtt,
                   mqtt_client, disconnectCalls, interrupts, netEvents,
                   summary, exitVia>>

\* main, line 816 and the next turn of the for loop
MainPause ==
    /\ pc = "pause"
    /\ dev' = dev + 1
    /\ pc' = "device"
    /\ UNCHANGED <<lsVars, codecVars, progressVars, mqttVars, brokerVars, df, i, stats, created, proc,
                   simExit, netSeen, mainVars>>

\* main, lines 832-845: entry k pairs the k-th kept processor with devices[k]
SummaryEntry(k) ==
    LET device == Devices[k]
        p == proc[all_processors[k]]
    IN  IF device.device_id \in DOMAIN p.device_stats
           THEN [name |-> device.name, device_id |-> device.device_id,
                 detailed |-> TRUE,
                 message_count |-> p.device_stats[device.device_id].message_count,
                 total_power |-> p.device_stats[device.device_id].total_power,
                 max_power |-> p.device_stats[device.device_id].max_power,
                 min_power |-> p.device_stats[device.device_id].min_power]
           ELSE [name |-> device.name, device_id |-> device.device_id,
                 detailed |-> FALSE,
                 message_count |-> Len(p.received_messages),
                 total_power |-> 0, max_power |-> 0, min_power |-> 0]

\* main, lines 819-851
MainSummary ==
    /\ pc = "summary"
    /\ summary' = [k \in 1..Len(all_processors) |-> SummaryEntry(k)]
    /\ pc' = "disconnect"
    /\ UNCHANGED <<lsVars, codecVars, progressVars, mqttVars, brokerVars, simVars, useRealMqtt,
                   mqtt_client, all_processors, disconnectCalls, interrupts,
                   netEvents, exitVia>>

\* main, lines 854-855, with MQTTClient.disconnect, lines 216-222
MainDisconnect ==
    /\ pc = "disconnect"
    /\ IF mqtt_client = "obj"
          THEN /\ loopRunning' = MQTTClient_disconnect(Transport).loopRunning
               /\ connected' = MQTTClient_disconnect(Transport).connected
               /\ disconnectCalls' = disconnectCalls + 1
          ELSE UNCHANGED <<loopRunning, connected, disconnectCalls>>
    /\ pc' = "ended"
    /\ exitVia' = "normal"
    /\ UNCHANGED <<lsVars, codecVars, progressVars, client, elapsed, connectResult, brokerVars, simVars,
                   useRealMqtt, mqtt_client, all_processors, interrupts,
                   netEvents, summary>>

\* ---------------------------------------------------------- Ctrl+C
\* KeyboardInterrupt in the main thread.  Inside simulate_device's try block
\* it is caught at lines 686-688 (return None); anywhere else it leaves
\* main() and is caught at lines 863-864, where the program ends.
Interrupt ==
    /\ pc # "ended"
    /\ interrupts < MaxInterrupts
    /\ interrupts' = interrupts + 1
    /\ IF pc \in SimPcs
          THEN /\ simExit' = [simExit EXCEPT ![dev] = "KeyboardInterrupt"]
               /\ pc' = "sim_return"
               /\ exitVia' = exitVia
          ELSE /\ simExit' = simExit
               /\ pc' = "ended"
               /\ exitVia' = "interrupt"
    /\ publishResult' = "none"
    /\ clientCalled' = FALSE
    /\ UNCHANGED <<lsVars, codecVars, progressVars, mqttVars, inflight, on_message, subscriptions, dev,
                   df, i, stats, created, proc, netSeen, useRealMqtt,
                   mqtt_client, all_processors, disconnectCalls, netEvents,
                   summary>>

\* ------------------------------------------------- the network loop thread
\* MQTTClient._on_connect, lines 160-166
OnConnect ==
    /\ loopRunning
    /\ ~connected
    /\ netEvents < MaxNetEvents
    /\ netEvents' = netEvents + 1
    /\ \E rc \in {0, 1} : connected' = (rc = 0)
    /\ UNCHANGED <<lsVars, codecVars, progressVars, client, loopRunning, elapsed, connectResult,
                   brokerVars, simVars, useRealMqtt, pc, mqtt_client,
                   all_processors, disconnectCalls, interrupts, summary,
                   exitVia>>

\* MQTTClient._on_disconnect, lines 168-172
OnDisconnect ==
    /\ loopRunning
    /\ connected
    /\ netEvents < MaxNetEvents
    /\ netEvents' = netEvents + 1
    /\ connected' = FALSE
    /\ UNCHANGED <<lsVars, codecVars, progressVars, client, loopRunning, elapsed, connectResult,
                   brokerVars, simVars, useRealMqtt, pc, mqtt_client,
                   all_processors, disconnectCalls, interrupts, summary,
                   exitVia>>

\* the network loop calls the installed on_message handler with the oldest
\* message in flight
OnMessage ==
    /\ loopRunning
    /\ connected
    /\ on_message # 0
    /\ inflight # <<>>
    /\ proc' = [proc EXCEPT ![on_message] =
                  on_mqtt_message(@, Head(inflight).topic,
                                  Head(inflight).bytes)]
    /\ inflight' = Tail(inflight)
    /\ UNCHANGED <<lsVars, codecVars, progressVars, mqttVars, on_message, subscriptions,
                   clientCalled, publishResult, dev, df, i, stats,
                   created, simExit, netSeen, mainVars, pc>>

\* qos=0: a message in flight may be lost
MessageLost ==
    /\ loopRunning
    /\ inflight # <<>>
    /\ inflight' = Tail(inflight)
    /\ UNCHANGED <<lsVars, codecVars, progressVars, mqttVars, on_message, subscriptions,
                   clientCalled, publishResult, simVars, mainVars, pc>>

\* ------------------------------------------------------ the specifications
MainNext ==
    \/ MainStart
    \/ ConnectCall
    \/ ConnectWait
    \/ ConnectCheck
    \/ MainAfterConnect
    \/ SimLoad
    \/ SimSubscribeCheck
    \/ SubscribeToMqtt
    \/ LoopPublishCheck
    \/ RealMqttPublish
    \/ DeliverCheck
    \/ SimFinish
    \/ MainCollect
    \/ MainPause
    \/ MainSummary
    \/ MainDisconnect

NetNext ==
    \/ OnConnect
    \/ OnDisconnect
    \/ OnMessage
    \/ MessageLost

Next ==
    \/ MainNext
    \/ NetNext
    \/ Interrupt

Spec == Init /\ [][Next]_vars

\* start-up and MQTTClient.connect alone, with the network loop's
\* notifications and Ctrl+C; the calling thread keeps running (its sleeps
\* return), which is the fairness condition
ConnectThread ==
    \/ MainStart
    \/ ConnectCall
    \/ ConnectWait
    \/ ConnectCheck
    \/ MainAfterConnect

ConnectNext ==
    \/ ConnectThread
    \/ OnConnect
    \/ OnDisconnect
    \/ Interrupt

SpecConnect == Init /\ [][ConnectNext]_vars /\ WF_vars(ConnectThread)

\* ------------------------------------------- LiveStats under any inputs
\* the power of the k-th call once the freely chosen prefix is over
Ramp(k) == ((k * 7) % 11) - 4

NextPowers(h) == IF Len(h) < FreeCalls THEN Powers ELSE {Ramp(Len(h) + 1)}

LsAddData ==
    /\ Len(lsHist) < MaxCalls
    /\ \E p \in NextPowers(lsHist) :
          /\ ls' = add_data(ls, p)
          /\ lsHist' = Append(lsHist, p)
    /\ UNCHANGED <<mqttVars, brokerVars, simVars, mainVars, pc, codecVars,
                   progressVars>>

NextStats == LsAddData

InitStats ==
    /\ Init
    /\ useRealMqtt = FALSE

SpecStats == InitStats /\ [][NextStats]_vars

\* ------------------------------------------------------------------ C1
\* C1: a simulate_device call that replays n >= 1 rows and never sees a
\* connected broker client returns a processor with processed_count = n and
\* device_stats[device_id].message_count = n.
C1_SimulatedRunCounts ==
    \A d \in DevIdx :
        (simExit[d] = "return" /\ ~netSeen[d] /\ Len(df[d]) >= 1) =>
            /\ proc[d].processed_count = Len(df[d])
            /\ Devices[d].device_id \in DOMAIN proc[d].device_stats
            /\ proc[d].device_stats[Devices[d].device_id].message_count
                  = Len(df[d])

C1_Witness ==
    /\ mqtt_client = "obj"
    /\ simExit[2] = "return"
    /\ ~netSeen[2]
    /\ Len(df[2]) >= 2
    /\ proc[2].processed_count = Len(df[2])
    /\ DOMAIN proc[2].device_stats = {"vacuum_254"}

\* ------------------------------------------------------------------ C6
\* C6: a MQTTClient.publish call made while connected is false returns
\* failure, does not call the paho client, puts nothing in flight and
\* leaves every consumer's processed_count as it was.
C6_PublishWhileDisconnected ==
    [][(pc = "real_publish" /\ pc' = "deliver" /\ ~connected) =>
          /\ publishResult' = "false"
          /\ ~clientCalled'
          /\ inflight' = inflight
          /\ \A d \in DevIdx :
                proc'[d].processed_count = proc[d].processed_count]_vars

C6_Witness ==
    /\ pc = "deliver"
    /\ ~connected
    /\ publishResult = "false"
    /\ ~clientCalled
    /\ stats.message_count = i + 1

\* ------------------------------------------------------------------ C7
\* C7: connect() waits at most the timeout; when it returns without the
\* acknowledgment (connected is false when it returns), whether after the
\* timeout or because the paho connect raised, it returns failure and
\* connected is false; it leaves the wait loop unacknowledged only at the
\* timeout; and it always terminates.
C7_ConnectTimeoutFails ==
    /\ [](elapsed <= ConnectTimeout * TicksPerUnit)
    /\ [][(pc \in ConnectPcs /\ pc' = "connect_ret" /\ ~connected) =>
              (connectResult' = "false" /\ ~connected')]_vars
    /\ [][(pc = "wait" /\ pc' = "connect_check" /\ ~connected) =>
              elapsed = ConnectTimeout * TicksPerUnit]_vars
    /\ [](pc \in ConnectPcs => <>(pc \notin ConnectPcs))

C7_Witness ==
    /\ pc = "connect_ret"
    /\ loopRunning
    /\ elapsed = ConnectTimeout * TicksPerUnit
    /\ connectResult = "false"
    /\ ~connected

\* ------------------------------------------------------------------ C8
\* main has dealt with what call d returned
Collected(d) ==
    \/ dev > d
    \/ dev = d /\ pc \in {"pause", "summary", "disconnect"}
    \/ dev = d /\ pc = "ended" /\ exitVia = "normal"

\* C8: when Ctrl+C stops the replay loop of a call after k >= 1 readings
\* were processed, the call's consumer is returned to main, which keeps it
\* (and reports it in the summary).
C8_InterruptedStatsKept ==
    \A d \in DevIdx :
        (simExit[d] = "KeyboardInterrupt" /\ d \in created
            /\ proc[d].processed_count >= 1 /\ Collected(d)) =>
        \E k \in 1..Len(all_processors) : all_processors[k] = d

\* ------------------------------------------------------------------ C9
\* C9: when the program has ended after a Ctrl+C that arrived during the
\* replay of the devices while the broker connection was open, disconnect()
\* has been called.
C9_InterruptDisconnects ==
    (pc = "ended" /\ interrupts >= 1 /\ dev >= 1 /\ mqtt_client = "obj") =>
        disconnectCalls >= 1

\* ----------------------------------------------------------------- C10
SummaryPrinted == pc = "disconnect" \/ (pc = "ended" /\ exitVia = "normal")

\* the summary has an entry for call d, under d's device id, with d's count
ReportedInSummary(d) ==
    \E k \in 1..Len(summary) :
        /\ summary[k].device_id = Devices[d].device_id
        /\ summary[k].message_count = proc[d].processed_count

\* C10: when the csv of one device is missing, the results of every other
\* device that completed (with at least one row) are in the final summary.
C10_MissingSourceOthersReported ==
    (SummaryPrinted /\ \E m \in DevIdx : simExit[m] = "FileNotFoundError") =>
        \A d \in DevIdx :
            (simExit[d] = "return" /\ Len(df[d]) >= 1) => ReportedInSummary(d)

\* ------------------------------------------------------------------ C2
\* C2: after add_data(p1..pn) on a fresh LiveStats, message_count = n and,
\* for n >= 1, min_power = min(pi), current_power = pn and the average is
\* sum(pi)/n; for n = 0 the average is 0.
C2_CountMinCurrentAvg ==
    LET n == Len(lsHist)
        avg == get_avg_power(ls)
    IN  /\ ls.message_count = n
        /\ n >= 1 => /\ ls.min_power = SeqMin(lsHist)
                     /\ ls.current_power = lsHist[n]
                     /\ avg[1] * n = SeqSum(lsHist) * avg[2]
        /\ n = 0 => avg = <<0, 1>>

C2_Witness ==
    /\ lsHist = <<3, -2, 0>>
    /\ ls.min_power = -2
    /\ get_avg_power(ls) = <<1, 3>>

\* ------------------------------------------------------------------ C3
\* C3: after add_data(p1..pn), n >= 1, with values that may be zero or
\* negative, max_power = max(pi).
C3_MaxIsMaxOfInputs ==
    Len(lsHist) >= 1 => ls.max_power = SeqMax(lsHist)

\* ------------------------------------------------------------------ C4
\* C4: once message_count >= 1, min_power <= current_power <= max_power.
C4_MinCurrentMax ==
    ls.message_count >= 1 =>
        /\ ls.min_power <= ls.current_power
        /\ ls.current_power <= ls.max_power

C4_Witness ==
    /\ ls.message_count >= 2
    /\ ls.current_power < 0
    /\ ls.min_power = ls.current_power
    /\ ls.max_power = 0

\* ------------------------------------------------------------------ C5
\* C5: recent_powers holds at most 20 values and is exactly the most recent
\* min(n, 20) values in arrival order.
C5_RecentWindow ==
    LET n == Len(lsHist)
    IN  /\ Len(ls.recent_powers) <= RecentCap
        /\ ls.recent_powers = LastN(lsHist, Min(n, RecentCap))

C5_Witness ==
    /\ Len(lsHist) = RecentCap + 2
    /\ Len(ls.recent_powers) = RecentCap
    /\ ls.recent_powers[1] = lsHist[3]
    /\ ls.recent_powers[1] # lsHist[1]

\* ------------------------------------- the payload codec under any reading
MaxIdLen == 2             \* characters of a device id
IdChars == {"a", QUOTE, BSLASH, "e_acute"}
CodecPowers == {-12, -2, 0, 3, 100}
CodecStamps == {<<"T", "1">>, <<"1", ":", ",", " ", "}">>}

Readings ==
    [device_id : UNION {[1..n -> IdChars] : n \in 1..MaxIdLen},
     timestamp : CodecStamps,
     power     : CodecPowers]

\* what a receiver gets out of the bytes of a message: lines 377-378, then
\* the payload.get calls of lines 413-415
DecodeReading(bytes) ==
    LET d == Utf8Decode(bytes)
        r == json_loads(d.text)
    IN  IF d.ok /\ r.ok /\ r.val.t = "obj"
           THEN [ok |-> TRUE, fields |-> PayloadFields(r.val)]
           ELSE [ok |-> FALSE, fields |-> PayloadFields(PyDict(<<>>))]

\* MQTTClient.publish, lines 203-204: json.dumps, then the bytes sent
CodecPublish ==
    /\ codecIn # <<>>
    /\ codecWire = <<>>
    /\ codecWire' = Utf8Encode(json_dumps(ReadingDict(codecIn[1])))
    /\ UNCHANGED <<lsVars, mqttVars, brokerVars, simVars, mainVars, pc,
                   codecIn, codecOut, progressVars>>

\* _on_mqtt_message and the field extraction of process_json_message
CodecReceive ==
    /\ codecWire # <<>>
    /\ codecOut = <<>>
    /\ codecOut' = <<DecodeReading(codecWire)>>
    /\ UNCHANGED <<lsVars, mqttVars, brokerVars, simVars, mainVars, pc,
                   codecIn, codecWire, progressVars>>

CodecNext == CodecPublish \/ CodecReceive

InitCodec ==
    /\ InitLs
    /\ InitMain
    /\ InitProgressIdle
    /\ useRealMqtt = TRUE
    /\ codecIn \in {<<r>> : r \in Readings}
    /\ codecWire = <<>>
    /\ codecOut = <<>>

SpecCodec == InitCodec /\ [][CodecNext]_vars

\* ------------------------------------------------------------------ C17
\* C17: encoding a reading with json.dumps and decoding the bytes with
\* decode('utf-8'), json.loads and the field extraction gives back the same
\* device_id, the same timestamp and the same power.
C17_RoundTrip ==
    codecOut # <<>> =>
        /\ codecOut[1].ok
        /\ codecOut[1].fields.device_id = PyStr(codecIn[1].device_id)
        /\ codecOut[1].fields.timestamp = PyStr(codecIn[1].timestamp)
        /\ codecOut[1].fields.power = PyNum(codecIn[1].power)

C17_Witness ==
    /\ codecOut # <<>>
    /\ codecOut[1].ok
    /\ codecIn[1].device_id = <<BSLASH, QUOTE>>
    /\ codecIn[1].timestamp = <<"1", ":", ",", " ", "}">>
    /\ codecIn[1].power = -12

\* ------------------------------- the consumer under any incoming message
MaxForeign == 3           \* messages one consumer takes from other publishers

ForeignIds == {"fridge_207", "x9"}

\* byte strings another client of the broker may publish: readings, "{}",
\* readings whose power is a string or null, values that are no object,
\* and bytes that are no JSON or no UTF-8
ForeignReadings ==
    {PayloadBytes([device_id |-> id, timestamp |-> "9", power |-> p]) :
        id \in ForeignIds, p \in RowPowers}
        \cup {json_dumps(PyDict(<<>>))}

BadPowerBytes(id, power) ==
    Utf8Encode(json_dumps(PyDict(
        << [key |-> <<"device_id">>, val |-> PyStr(<<id>>)],
           [key |-> <<"timestamp">>, val |-> PyStr(<<"9">>)],
           [key |-> <<"power">>,     val |-> power] >>)))

ForeignBadPower ==
    {BadPowerBytes(id, power) :
        id \in ForeignIds, power \in {PyStr(<<"high">>), PyNone}}

ForeignNonObject ==
    {json_dumps(PyNum(5)), json_dumps(PyStr(<<"fridge_207">>)),
     json_dumps(PyNone)}

ForeignGarbage ==
    {<<"{", QUOTE, "device_id">>, <<"h", "i">>, <<"0xFF">>}

ForeignBytes ==
    ForeignReadings \cup ForeignBadPower \cup ForeignNonObject
        \cup ForeignGarbage

RECURSIVE SumCounts(_, _)
SumCounts(ds, ids) ==
    IF ids = {} THEN 0
    ELSE LET id == CHOOSE x \in ids : TRUE
         IN  ds[id].message_count + SumCounts(ds, ids \ {id})

\* what a consumer has taken in so far
ConsumerLoad(c) ==
    Max(c.processed_count, SumCounts(c.device_stats, DOMAIN c.device_stats))

\* another client of the broker publishes on a topic some subscription of
\* this client matches (line 364 subscribes to <prefix>/+/power)
ForeignPublish ==
    /\ loopRunning
    /\ connected
    /\ on_message # 0
    /\ inflight = <<>>
    /\ ConsumerLoad(proc[on_message]) < MaxForeign
    /\ \E id \in ForeignIds, b \in ForeignBytes :
          LET topic == Devices[on_message].topic_prefix \o <<id, "power">>
          IN  /\ \E f \in subscriptions : TopicMatches(f, topic)
              /\ inflight' = <<[topic |-> topic, bytes |-> b]>>
    /\ UNCHANGED <<lsVars, codecVars, progressVars, mqttVars, on_message, subscriptions,
                   clientCalled, publishResult, simVars, mainVars, pc>>

ConsumerNext == ForeignPublish \/ OnMessage

\* the first simulate_device call of a networked run has subscribed and
\* is about to enter its replay loop
InitConsumer ==
    /\ InitLs
    /\ InitCodecIdle
    /\ InitProgressIdle
    /\ useRealMqtt = TRUE
    /\ pc = "loop"
    /\ mqtt_client = "obj"
    /\ client = TRUE
    /\ connected = TRUE
    /\ loopRunning = TRUE
    /\ elapsed = 0
    /\ connectResult = "true"
    /\ dev = 1
    /\ df = [d \in DevIdx |-> <<>>]
    /\ i = 0
    /\ stats = LiveStatsInit
    /\ created = {1}
    /\ proc = [d \in DevIdx |->
                 IF d = 1 THEN [ApplicationLayerInit EXCEPT !.subscribed = TRUE]
                          ELSE ApplicationLayerInit]
    /\ simExit = [d \in DevIdx |-> "pending"]
    /\ netSeen = [d \in DevIdx |-> d = 1]
    /\ all_processors = <<>>
    /\ inflight = <<>>
    /\ on_message = 1
    /\ subscriptions = {TopicFilter(1)}
    /\ clientCalled = FALSE
    /\ publishResult = "none"
    /\ disconnectCalls = 0
    /\ interrupts = 0
    /\ netEvents = 1
    /\ summary = <<>>
    /\ exitVia = "running"

SpecConsumer == InitConsumer /\ [][ConsumerNext]_vars

\* a message that cannot be decoded or processed: no UTF-8, no JSON, no
\* object, or an object whose power is not a number
Malformed(bytes) ==
    LET d == Utf8Decode(bytes)
        r == json_loads(d.text)
    IN  \/ ~d.ok
        \/ ~r.ok
        \/ r.val.t # "obj"
        \/ PayloadFields(r.val).power.t # "num"

\* ------------------------------------------------------------------ C11
\* C11: a received message that is malformed is dropped: the handler leaves
\* processed_count, received_messages and every device_stats record of the
\* consumer as they were.
C11_MalformedDropped ==
    [][ ( /\ inflight # <<>>
          /\ inflight' = Tail(inflight)
          /\ on_message # 0
          /\ Malformed(Head(inflight).bytes) )
        => /\ proc'[on_message].processed_count
                = proc[on_message].processed_count
           /\ proc'[on_message].received_messages
                = proc[on_message].received_messages
           /\ proc'[on_message].device_stats
                = proc[on_message].device_stats ]_vars

\* ------------------------------------------------------------------ C12
\* C12: in a simulate_device call that subscribed its consumer to the
\* broker, no step of the replay loop writes the consumer's state (only the
\* on_message callback does), whatever notifications arrive in between.
C12_ConsumerWrittenByCallbackOnly ==
    [][ ( /\ dev \in DevIdx
          /\ proc[dev].subscribed
          /\ pc \in {"loop", "real_publish", "deliver"}
          /\ pc' # pc )
        => proc'[dev] = proc[dev] ]_vars

\* ------------------------------------------------------------------ C13
\* C13: once connect() has returned False, connect is not entered again and
\* main runs the devices without a client: no device subscribes or
\* publishes on the broker client, and every reading of every device is
\* handed directly to its consumer.
C13_NoRetryFallback ==
    /\ []( connectResult = "false" =>
              /\ (dev >= 1 => mqtt_client = "None")
              /\ pc \notin ConnectPcs \cup {"subscribe", "real_publish"}
              /\ ~clientCalled
              /\ inflight = <<>>
              /\ \A d \in DevIdx : ~proc[d].subscribed /\ ~netSeen[d] )
    /\ [][ (connectResult = "false" /\ pc = "deliver" /\ pc' = "loop") =>
              /\ proc'[dev].processed_count = proc[dev].processed_count + 1
              /\ Len(proc'[dev].received_messages) = i + 1
              /\ proc'[dev].received_messages[i + 1].power = df[dev][i + 1]
         ]_vars

C13_Witness ==
    /\ connectResult = "false"
    /\ connected
    /\ \A d \in DevIdx : simExit[d] = "return" /\ Len(df[d]) >= 1
    /\ \A d \in DevIdx : proc[d].processed_count = Len(df[d])

\* ------------------------------------ the transport under any disconnect
MaxDisconnects == 2       \* disconnect calls on one MQTTClient

\* the owner of the MQTTClient calls disconnect(): before connect() was
\* ever called, or after it returned
ClientDisconnect ==
    /\ pc \in {"connect", "connect_ret"}
    /\ mqtt_client = "obj"
    /\ disconnectCalls < MaxDisconnects
    /\ client' = MQTTClient_disconnect(Transport).client
    /\ connected' = MQTTClient_disconnect(Transport).connected
    /\ loopRunning' = MQTTClient_disconnect(Transport).loopRunning
    /\ disconnectCalls' = disconnectCalls + 1
    /\ UNCHANGED <<lsVars, codecVars, progressVars, elapsed, connectResult, brokerVars,
                   simVars, useRealMqtt, mqtt_client, all_processors,
                   interrupts, netEvents, summary, exitVia, pc>>

ClientNext == ConnectNext \/ ClientDisconnect

SpecClient == Init /\ [][ClientNext]_vars

\* ------------------------------------------------------------------ C14
\* C14: disconnect() on a transport that has no paho client changes nothing;
\* otherwise it leaves connected = false; and in every state a second call
\* right after the first leaves the state the first call left.
C14_DisconnectIdempotent ==
    /\ [][ disconnectCalls' = disconnectCalls + 1 =>
              /\ ~connected'
              /\ ~client => (client' = client /\ connected' = connected
                                /\ loopRunning' = loopRunning) ]_vars
    /\ []( /\ ~MQTTClient_disconnect(Transport).connected
           /\ MQTTClient_disconnect(MQTTClient_disconnect(Transport))
                 = MQTTClient_disconnect(Transport) )

C14_Witness ==
    /\ disconnectCalls = 2
    /\ connectResult = "true"
    /\ client
    /\ ~connected
    /\ ~loopRunning

\* ------------------------------------------------------------------ C15
\* C15: when simulate_device returns for a dataset without rows, it has
\* done no loop iteration, the consumer it returns has processed_count = 0
\* and an empty received_messages, and the LiveStats has message_count = 0
\* and average 0.
C15_EmptyDataset ==
    [][ (pc = "loop" /\ simExit'[dev] = "return" /\ df[dev] = <<>>) =>
           /\ i' = 0
           /\ proc'[dev].processed_count = 0
           /\ proc'[dev].received_messages = <<>>
           /\ stats'.message_count = 0
           /\ get_avg_power(stats')[1] = 0 ]_vars

\* the device id a message decodes to
DecodedId(bytes) ==
    KeyOf(PayloadFields(json_loads(Utf8Decode(bytes).text).val).device_id)

\* ------------------------------------------------------------------ C16
\* C16: when the handler processes a well-formed reading of device d, the
\* consumer's record of d exists afterwards and counts one message more
\* (from 0 if it was absent), every other record is unchanged and none is
\* removed or added, the reading is appended at the end of received_messages
\* and processed_count grows by one.
C16_ProcessFrame ==
    [][ ( /\ inflight # <<>>
          /\ inflight' = Tail(inflight)
          /\ on_message # 0
          /\ ~Malformed(Head(inflight).bytes) )
        => LET c == proc[on_message]
               c2 == proc'[on_message]
               d == DecodedId(Head(inflight).bytes)
           IN  /\ DOMAIN c2.device_stats = (DOMAIN c.device_stats) \cup {d}
               /\ \A k \in (DOMAIN c.device_stats) \ {d} :
                     c2.device_stats[k] = c.device_stats[k]
               /\ c2.device_stats[d].message_count =
                     IF d \in DOMAIN c.device_stats
                        THEN c.device_stats[d].message_count + 1 ELSE 1
               /\ Len(c2.received_messages) = Len(c.received_messages) + 1
               /\ SubSeq(c2.received_messages, 1, Len(c.received_messages))
                     = c.received_messages
               /\ c2.received_messages[Len(c2.received_messages)].device_id = d
               /\ c2.processed_count = c.processed_count + 1 ]_vars

\* a consumer holding records of two devices and three readings
C16_Witness ==
    /\ DOMAIN proc[1].device_stats = {"fridge_207", "x9"}
    /\ proc[1].processed_count = 3
    /\ proc[1].device_stats["x9"].message_count = 2
    /\ proc[1].received_messages[3].device_id = "fridge_207"

\* ------------------------------------------------------------------ C18
\* C18: every topic the replay loop publishes on (in flight to the broker's
\* subscribers or logged by a consumer) is <topic_prefix>/<device_id>/power
\* of some device and is matched by the filter <topic_prefix>/+/power of
\* the consumer; "+" matches exactly one segment, so home/appliance/+/power
\* matches the topics of fridge_207 and vacuum_254 and does not match
\* home/appliance/fridge_207/status/power.
C18_TopicRouting ==
    /\ \A k \in 1..Len(inflight) :
          /\ \E d \in DevIdx :
                inflight[k].topic =
                    Devices[d].topic_prefix \o <<Devices[d].device_id, "power">>
          /\ \A f \in subscriptions : TopicMatches(f, inflight[k].topic)
    /\ \A d \in created :
          \A k \in 1..Len(proc[d].received_messages) :
             /\ \E e \in DevIdx :
                   proc[d].received_messages[k].topic =
                       Devices[e].topic_prefix
                           \o <<Devices[e].device_id, "power">>
             /\ TopicMatches(TopicFilter(d), proc[d].received_messages[k].topic)
    /\ \A d \in DevIdx :
          /\ TopicFilter(d) = <<"home", "appliance", "+", "power">>
          /\ TopicMatches(TopicFilter(d),
                          <<"home", "appliance", "fridge_207", "power">>)
          /\ TopicMatches(TopicFilter(d),
                          <<"home", "appliance", "vacuum_254", "power">>)
          /\ ~TopicMatches(TopicFilter(d),
                  <<"home", "appliance", "fridge_207", "status", "power">>)

C18_Witness ==
    /\ inflight # <<>>
    /\ inflight[1].topic = <<"home", "appliance", "vacuum_254", "power">>
    /\ proc[2].processed_count >= 1
    /\ proc[1].processed_count >= 1

\* ------------------------------------------------------------------ C19
\* C19: in every LiveStats state the ratio get_power_bar uses lies in
\* [0, 1], the filled part is between 0 and width cells and the bar has
\* exactly width cells, for the widths the program uses (30 and 50).
C19_PowerBarClamped ==
    \A width \in {30, 50} :
        LET bar == get_power_bar(ls, width)
        IN  /\ 0 <= bar.normalized[1]
            /\ bar.normalized[1] <= bar.normalized[2]
            /\ bar.filled \in 0..width
            /\ bar.full + bar.empty = width

\* ------------------------------------------------------------------ C20
\* C20: in a simulate_device call that never saw a connected broker client,
\* the consumer's received_messages is at every moment the rows replayed so
\* far, in source order, each once, with the row's timestamp and power (so
\* after the run it equals the dataset), and each row was published once.
C20_ReplayInOrder ==
    \A d \in created :
        (~netSeen[d] /\ (simExit[d] = "return" \/ (d = dev /\ pc \in SimPcs)))
        => LET log == proc[d].received_messages
               done == IF simExit[d] = "return" THEN Len(df[d]) ELSE i
           IN  /\ Len(log) = done
               /\ proc[d].processed_count = done
               /\ \A k \in 1..Len(log) :
                     /\ log[k].device_id = Devices[d].device_id
                     /\ log[k].timestamp = isoformat(k)
                     /\ log[k].power = df[d][k]
               /\ d = dev /\ pc \in SimPcs \cup {"sim_return"} =>
                     /\ stats.message_count =
                           IF pc = "deliver" THEN done + 1 ELSE done
                     /\ stats.recent_powers =
                           SubSeq(df[d], 1, stats.message_count)

C20_Witness ==
    /\ \A d \in DevIdx :
          /\ simExit[d] = "return"
          /\ ~netSeen[d]
          /\ Len(df[d]) = MaxRecords
          /\ Len(proc[d].received_messages) = MaxRecords
    /\ df[1][1] # df[2][1]

\* ------------------------------------ the progress line under any total
MaxTotal == 201           \* total_records of the watched replay
ProgressEvery == 100      \* "(i + 1) % 100"

\* lines 647-661 at loop index index of total records: the block that
\* computes the progress is entered on every 100th record and on the last
\* one (line 647), the print inside it is guarded by line 656
ProgressPrinted(index, total) ==
    /\ (index + 1) % ProgressEvery = 0 \/ index + 1 = total
    /\ (index + 1) % ProgressEvery = 0

\* one iteration of the replay loop, as far as the progress line goes
ProgressStep ==
    /\ progIndex < progTotal
    /\ progPrinted' = IF ProgressPrinted(progIndex, progTotal)
                         THEN progPrinted \cup {progIndex} ELSE progPrinted
    /\ progIndex' = progIndex + 1
    /\ UNCHANGED <<lsVars, codecVars, mqttVars, brokerVars, simVars, mainVars,
                   pc, progTotal>>

ProgressNext == ProgressStep

InitProgress ==
    /\ InitLs
    /\ InitMain
    /\ InitCodecIdle
    /\ useRealMqtt = FALSE
    /\ progTotal \in 0..MaxTotal
    /\ progIndex = 0
    /\ progPrinted = {}

SpecProgress == InitProgress /\ [][ProgressNext]_vars

\* ------------------------------------------------------------------ C21
\* C21: a progress line was printed at a completed loop index exactly when
\* (index + 1) % 100 = 0 or index + 1 = total_records.
C21_ProgressCadence ==
    \A index \in 0..(progIndex - 1) :
        index \in progPrinted <=>
            ((index + 1) % 100 = 0 \/ index + 1 = progTotal)


\* ------------------------------------------------------------------ C22
\* C22: every reading takes exactly one delivery path: the step that ends an
\* iteration either follows a network publish (line 630) and hands nothing
\* to the consumer, or follows a simulated publish (line 633) and hands the
\* reading to the consumer directly (line 644); never both, never neither.
C22_ExactlyOnePath ==
    [][(pc = "deliver" /\ pc' = "loop") =>
          ((publishResult # "none") <=> (proc'[dev] = proc[dev]))]_vars


\* ------------------------------------------------------------------ C23
\* C23: after any sequence of process_json_message calls, failed ones
\* included, a consumer's processed_count equals the length of its
\* received_messages and the sum of message_count over its device_stats.
C23_ConsumerCountsAgree ==
    \A d \in DevIdx :
        /\ proc[d].processed_count = Len(proc[d].received_messages)
        /\ proc[d].processed_count
             = SumCounts(proc[d].device_stats, DOMAIN proc[d].device_stats)


\* ------------------------------------------------------------------ C24
\* C24: once connect() has reported failure the transport stays
\* disconnected: in no state has connect() returned False and is connected
\* true (connect is called once per run, so there is no new connect() call).
C24_FailedConnectStaysDown ==
    connectResult = "false" => ~connected


\* ------------------------------------------------------------------ C25
\* C25: in the final summary every retained consumer is reported under the
\* name and device_id of the device it was created for.
C25_SummaryUnderOwnDevice ==
    SummaryPrinted =>
        \A k \in 1..Len(summary) :
            /\ summary[k].name = Devices[all_processors[k]].name
            /\ summary[k].device_id = Devices[all_processors[k]].device_id


\* ------------------------------------------------------------------ C26
\* C26: the consumer created for device d aggregates readings of d only:
\* its device_stats never has a key other than d's device_id.
C26_OwnReadingsOnly ==
    \A d \in DevIdx :
        DOMAIN proc[d].device_stats \subseteq {Devices[d].device_id}


\* ------------------------------------------------------------------ C27
\* the device's record in a consumer, or the initial record when the
\* consumer has none yet
OwnRecord(d) ==
    IF Devices[d].device_id \in DOMAIN proc[d].device_stats
       THEN proc[d].device_stats[Devices[d].device_id]
       ELSE DeviceStatsInit

\* C27: in a simulate_device call that never saw a connected broker client,
\* after every completed loop iteration the LiveStats of the call and the
\* consumer's device_stats[device_id] agree on message_count, total_power,
\* max_power and min_power, and both have counted the iterations done.
C27_StatsAgree ==
    (pc = "loop" /\ ~netSeen[dev]) =>
        /\ stats.message_count = i
        /\ (i >= 1) <=> (Devices[dev].device_id
                            \in DOMAIN proc[dev].device_stats)
        /\ stats.message_count = OwnRecord(dev).message_count
        /\ stats.total_power = OwnRecord(dev).total_power
        /\ stats.max_power = OwnRecord(dev).max_power
        /\ stats.min_power = OwnRecord(dev).min_power

C27_Witness ==
    /\ pc = "loop"
    /\ ~netSeen[dev]
    /\ dev = 2
    /\ df[dev] = <<3, -2>>
    /\ i = 2
    /\ OwnRecord(dev).message_count = 2
    /\ OwnRecord(dev).total_power = 1
    /\ OwnRecord(dev).max_power = 3
    /\ OwnRecord(dev).min_power = -2
    /\ stats.total_power = 1

====
